---- MODULE Spec2Model ----
(***************************************************************************)
(* Model of bang (src/main.py): the rotation of an IAM user's access key.   *)
(* One run of main() is a sequential process; every remote call and the     *)
(* rewrite of the credentials file is one action.  The IAM service is the   *)
(* environment: it holds the keys of the user and answers each call with    *)
(* success or with a ClientError.                                           *)
(***************************************************************************)
EXTENDS Integers, Sequences, FiniteSets, TLC

\* The cap of the guard at main.py:111 (and 126); it mirrors the service's
\* limit of access keys per user.
KeyCap == 2
\* Creation timestamps of the keys listed are drawn from 1..MaxDate.
MaxDate == 2
\* --grace-period is drawn from 0..MaxGrace.
MaxGrace == 1
\* Keys the operator may delete by hand while the run is going on.
MaxManualDeletes == 1

\* The identifier the service gives the key it creates: it is none of the
\* identifiers 1..KeyCap the user's keys can have before the run.
NewId == KeyCap + 1
Ids == 1..NewId
\* The secret the service issues with key id (shown once, at creation).
Secret(id) == id + 10

Statuses == {"Active", "Inactive", "Absent"}

\* The credentials file: the sections present and, for every section, the
\* value of every option (0: the option is not there).  Option values are
\* numbers: key identifiers, secrets, or 5 for a region.
Sections == {"default", "work"}
RawNames == {"aws_access_key_id", "aws_secret_access_key", "Region", "region"}

VARIABLES
    pc,             \* position of main(): the line about to run
    force,          \* args.force
    grace_period,   \* args.grace_period
    profile,        \* args.profile
    user_given,     \* whether --user was passed
    status,         \* service: status of every key of the user
    created,        \* service: CreateDate of every key
    existing_keys,  \* main(): the list returned by get_access_keys
    new_key,        \* main(): the key returned by create_new_access_key
    idx,            \* position of the loop of main.py:132 in existing_keys
    file,           \* the credentials file on disk
    exit_code,      \* exit status of the process (-1 while it runs)
    calls,          \* history: remote calls, file write and sleep, in order
    snapshot,       \* history: the list as get_access_keys returned it
    file0,          \* history: the credentials file before the run
    manual          \* number of keys deleted by hand so far

vars == <<pc, force, grace_period, profile, user_given, status, created,
          existing_keys, new_key, idx, file, exit_code, calls, snapshot,
          file0, manual>>

NoKey == [AccessKeyId |-> 0, SecretAccessKey |-> 0]

\* Number of keys the user holds at the service.
Held(st) == Cardinality({k \in Ids : st[k] # "Absent"})

\* One entry of the history: the operation, the key it addresses (0: none),
\* the line of main.py that issues it, its outcome, and what the service
\* held when it was issued.
Call(op, id, site, ok) ==
    [op |-> op, id |-> id, site |-> site, ok |-> ok,
     st |-> IF id \in Ids THEN status[id] ELSE "Absent",
     held |-> Held(status)]

----------------------------------------------------------------------------
\* configparser as update_credentials_file uses it.

\* optionxform: option names are lower-cased when the file is read.
Lower(name) == IF name = "Region" THEN "region" ELSE name

EmptyFile == [sections |-> {}, opts |-> [s \in Sections |-> [n \in RawNames |-> 0]]]

\* A strict parser refuses a section that holds the same option twice.
DuplicateOption(f) ==
    \E s \in f.sections : \E n, m \in RawNames :
        n # m /\ Lower(n) = Lower(m) /\ f.opts[s][n] # 0 /\ f.opts[s][m] # 0

\* The value the parser holds for option n (a lower-case name) of section s.
ReadOption(f, s, n) ==
    IF \E r \in RawNames : Lower(r) = n /\ f.opts[s][r] # 0
    THEN f.opts[s][CHOOSE r \in RawNames : Lower(r) = n /\ f.opts[s][r] # 0]
    ELSE 0

\* config.read followed by config.write: what the parser holds of file f.
ReadConfig(f) ==
    [sections |-> f.sections,
     opts |-> [s \in Sections |-> [n \in RawNames |->
                 IF s \in f.sections /\ Lower(n) = n THEN ReadOption(f, s, n) ELSE 0]]]

\* update_credentials_file without its config.read: the file is written from
\* an empty parser.
UpdatedConfigUnread(f, p, k) ==
    [sections |-> {p},
     opts |-> [EmptyFile.opts EXCEPT
                 ![p]["aws_access_key_id"] = k.AccessKeyId,
                 ![p]["aws_secret_access_key"] = k.SecretAccessKey]]

\* The file update_credentials_file writes over f for profile p and key k.
UpdatedConfig(f, p, k) ==
    LET config == ReadConfig(f) IN
    [sections |-> config.sections \cup {p},
     opts |-> [config.opts EXCEPT
                 ![p]["aws_access_key_id"] = k.AccessKeyId,
                 ![p]["aws_secret_access_key"] = k.SecretAccessKey]]

----------------------------------------------------------------------------
\* existing_keys.sort(key=lambda k: k['CreateDate']): a stable sort.

RECURSIVE InsertByDate(_, _)
InsertByDate(s, k) ==
    IF s = <<>> THEN <<k>>
    ELSE IF k.CreateDate < Head(s).CreateDate THEN <<k>> \o s
    ELSE <<Head(s)>> \o InsertByDate(Tail(s), k)

\* The list left in service order.
SortByDateUnsorted(s) == s

RECURSIVE SortByDate(_)
SortByDate(s) ==
    IF s = <<>> THEN <<>>
    ELSE InsertByDate(SortByDate(SubSeq(s, 1, Len(s) - 1)), s[Len(s)])

----------------------------------------------------------------------------
\* The decisions of main().

\* The guard with > for >=.
CapExceededOffByOne(n, f) == n > KeyCap /\ ~f

\* main.py:111
CapExceeded(n, f) == n >= KeyCap /\ ~f

\* The forced eviction with > for >=.
ForcedEvictionOffByOne(n, f) == n > KeyCap /\ f

\* main.py:126
ForcedEvictionApplies(n, f) == n >= KeyCap /\ f

\* The test of the grace period with >= for >, and with 1 for 0.
KeptForGraceAlways(g) == g >= 0
KeptForGraceAboveOne(g) == g > 1

\* main.py:137: the key is kept for the grace period, not deleted now.
KeptForGrace(g) == g > 0

\* main.py:133
Superseded(key, new) == key.AccessKeyId # new.AccessKeyId

\* A ClientError printed without sys.exit(1).
AfterFatalCallIgnored(ok, next) == next
\* A ClientError that ends the process where it should only be printed.
AfterLoggedCallFatal(ok, next) == IF ok THEN next ELSE "exit1"

\* get_current_user, get_access_keys, create_new_access_key: a ClientError
\* ends the process with sys.exit(1).
AfterFatalCall(ok, next) == IF ok THEN next ELSE "exit1"

\* deactivate_access_key, delete_access_key: a ClientError is printed and
\* the function returns.
AfterLoggedCall(ok, next) == next

----------------------------------------------------------------------------
\* The states a run can start from.

\* What a section of the credentials file can hold before the run: nothing
\* (the section is not there), a key pair, a key pair and a Region option,
\* or a key pair and the region written twice.
SectionContents ==
    { [n \in RawNames |-> 0],
      [n \in RawNames |-> IF n = "aws_access_key_id" THEN 1
                          ELSE IF n = "aws_secret_access_key" THEN Secret(1)
                          ELSE 0],
      [n \in RawNames |-> IF n = "aws_access_key_id" THEN 1
                          ELSE IF n = "aws_secret_access_key" THEN Secret(1)
                          ELSE IF n = "Region" THEN 5 ELSE 0],
      [n \in RawNames |-> IF n = "aws_access_key_id" THEN 1
                          ELSE IF n = "aws_secret_access_key" THEN Secret(1)
                          ELSE 5] }

InitFiles ==
    { [sections |-> {s \in Sections : \E n \in RawNames : o[s][n] # 0}, opts |-> o] :
        o \in [Sections -> SectionContents] }

\* The user holds the keys 1..n, n <= KeyCap, each Active or Inactive, listed
\* by the service in the order 1..n with any creation dates.
InitServices ==
    { sc \in [Ids -> [Status : Statuses, CreateDate : 0..MaxDate]] :
        \E n \in 0..KeyCap :
            \A k \in Ids :
                IF k <= n
                THEN sc[k].Status # "Absent" /\ sc[k].CreateDate >= 1
                ELSE sc[k].Status = "Absent" /\ sc[k].CreateDate = 0 }

Init ==
    /\ pc = "resolve"
    /\ force \in BOOLEAN
    /\ grace_period \in 0..MaxGrace
    /\ profile \in Sections
    /\ user_given \in BOOLEAN
    /\ \E sc \in InitServices :
        /\ status = [k \in Ids |-> sc[k].Status]
        /\ created = [k \in Ids |-> sc[k].CreateDate]
    /\ existing_keys = <<>>
    /\ new_key = NoKey
    /\ idx = 0
    /\ file \in InitFiles
    /\ file0 = file
    /\ exit_code = -1
    /\ calls = <<>>
    /\ snapshot = <<>>
    /\ manual = 0

args == <<force, grace_period, profile, user_given>>

----------------------------------------------------------------------------
\* The service's answers.

\* update_access_key(Status='Inactive') and delete_access_key can succeed
\* only on a key the user holds; any call can fail.
CanSucceedOn(id) == status[id] # "Absent"

\* create_access_key can succeed only below the limit of keys per user.
CanCreate == Held(status) < KeyCap

\* The keys the user holds, as list_access_keys returns them.
RECURSIVE ListFrom(_)
ListFrom(k) ==
    IF k > NewId THEN <<>>
    ELSE (IF status[k] # "Absent"
          THEN <<[AccessKeyId |-> k, CreateDate |-> created[k]]>>
          ELSE <<>>) \o ListFrom(k + 1)

----------------------------------------------------------------------------
\* The steps of main().

\* main.py:106, get_current_user (27-33)
ResolveIdentity ==
    /\ pc = "resolve"
    /\ IF user_given
       THEN /\ pc' = "list"
            /\ UNCHANGED <<calls, exit_code>>
       ELSE \E ok \in BOOLEAN :
            /\ calls' = Append(calls, Call("get_user", 0, 30, ok))
            /\ pc' = AfterFatalCall(ok, "list")
            /\ exit_code' = IF pc' = "exit1" THEN 1 ELSE exit_code
    /\ UNCHANGED <<args, status, created, existing_keys, new_key, idx, file,
                   snapshot, file0, manual>>

\* main.py:109, get_access_keys (36-42)
ListKeys ==
    /\ pc = "list"
    /\ \E ok \in BOOLEAN :
        /\ calls' = Append(calls, Call("list", 0, 38, ok))
        /\ pc' = AfterFatalCall(ok, "guard")
        /\ exit_code' = IF pc' = "exit1" THEN 1 ELSE exit_code
        /\ existing_keys' = IF ok THEN ListFrom(1) ELSE existing_keys
        /\ snapshot' = existing_keys'
    /\ UNCHANGED <<args, status, created, new_key, idx, file, file0, manual>>

\* main.py:111-113
CapGuard ==
    /\ pc = "guard"
    /\ IF CapExceeded(Len(existing_keys), force)
       THEN pc' = "exit1" /\ exit_code' = 1
       ELSE pc' = "create" /\ UNCHANGED exit_code
    /\ UNCHANGED <<args, status, created, existing_keys, new_key, idx, file,
                   calls, snapshot, file0, manual>>

\* main.py:116, create_new_access_key (45-51)
CreateKey ==
    /\ pc = "create"
    /\ \E ok \in BOOLEAN :
        /\ ok => CanCreate
        /\ calls' = Append(calls, Call("create", NewId, 47, ok))
        /\ pc' = AfterFatalCall(ok, "write")
        /\ exit_code' = IF pc' = "exit1" THEN 1 ELSE exit_code
        /\ status' = IF ok THEN [status EXCEPT ![NewId] = "Active"] ELSE status
        /\ new_key' = IF ok
                      THEN [AccessKeyId |-> NewId, SecretAccessKey |-> Secret(NewId)]
                      ELSE new_key
    /\ UNCHANGED <<args, created, existing_keys, idx, file, snapshot, file0, manual>>

\* main.py:120, update_credentials_file (54-71).  An exception is not caught:
\* the process ends with status 1.  The parser refusing the file or makedirs
\* failing leaves the file as it was, a failure of open(..., 'w') or of the
\* write can leave it truncated, a failure of chmod leaves it written.
UpdateCredentialsFile ==
    /\ pc = "write"
    /\ \E ok \in BOOLEAN :
        /\ ok => ~DuplicateOption(file)
        /\ calls' = Append(calls, Call("write", 0, 69, ok))
        /\ IF ok
           THEN /\ file' = UpdatedConfig(file, profile, new_key)
                /\ pc' = "sleep"
                /\ UNCHANGED exit_code
           ELSE /\ file' \in IF DuplicateOption(file) THEN {file}
                           ELSE {file, EmptyFile, UpdatedConfig(file, profile, new_key)}
                /\ pc' = "exit1"
                /\ exit_code' = 1
    /\ UNCHANGED <<args, status, created, existing_keys, new_key, idx, snapshot,
                   file0, manual>>

\* main.py:123-124
PropagationWait ==
    /\ pc = "sleep"
    /\ calls' = Append(calls, Call("sleep", 0, 124, TRUE))
    /\ pc' = "evict"
    /\ UNCHANGED <<args, status, created, existing_keys, new_key, idx, file,
                   exit_code, snapshot, file0, manual>>

\* The effect of deactivate_access_key (74-84) on key id, called from line site.
Deactivate(id, site, ok) ==
    /\ ok => CanSucceedOn(id)
    /\ calls' = Append(calls, Call("update", id, site, ok))
    /\ status' = IF ok THEN [status EXCEPT ![id] = "Inactive"] ELSE status

\* main.py:126-130
ForcedEviction ==
    /\ pc = "evict"
    /\ IF ForcedEvictionApplies(Len(existing_keys), force)
       THEN \E ok \in BOOLEAN :
            /\ existing_keys' = SortByDate(existing_keys)
            /\ Deactivate(existing_keys'[1].AccessKeyId, 130, ok)
            /\ pc' = AfterLoggedCall(ok, "pass")
       ELSE /\ pc' = "pass"
            /\ UNCHANGED <<existing_keys, calls, status>>
    /\ idx' = 1
    /\ UNCHANGED <<args, created, new_key, file, exit_code, snapshot, file0, manual>>

\* main.py:132-140: one turn of the loop up to the choice of line 137.
SupersedeKey ==
    /\ pc = "pass"
    /\ idx <= Len(existing_keys)
    /\ LET key == existing_keys[idx] IN
       IF Superseded(key, new_key)
       THEN \E ok \in BOOLEAN :
            /\ Deactivate(key.AccessKeyId, 135, ok)
            /\ IF KeptForGrace(grace_period)
               THEN pc' = AfterLoggedCall(ok, "pass") /\ idx' = idx + 1
               ELSE pc' = AfterLoggedCall(ok, "delete") /\ idx' = idx
       ELSE /\ pc' = "pass" /\ idx' = idx + 1
            /\ UNCHANGED <<calls, status>>
    /\ UNCHANGED <<args, created, existing_keys, new_key, file, exit_code,
                   snapshot, file0, manual>>

\* main.py:142-143, delete_access_key (86-94)
DeleteKey ==
    /\ pc = "delete"
    /\ LET id == existing_keys[idx].AccessKeyId IN
       \E ok \in BOOLEAN :
        /\ ok => CanSucceedOn(id)
        /\ calls' = Append(calls, Call("delete", id, 143, ok))
        /\ status' = IF ok THEN [status EXCEPT ![id] = "Absent"] ELSE status
        /\ pc' = AfterLoggedCall(ok, "pass")
    /\ idx' = idx + 1
    /\ UNCHANGED <<args, created, existing_keys, new_key, file, exit_code,
                   snapshot, file0, manual>>

\* main.py:145-147 and the return of main(): exit status 0.
CompletionReport ==
    /\ pc = "pass"
    /\ idx > Len(existing_keys)
    /\ pc' = "done"
    /\ exit_code' = 0
    /\ UNCHANGED <<args, status, created, existing_keys, new_key, idx, file,
                   calls, snapshot, file0, manual>>

\* The operator deletes one of the user's old keys by hand while the run is
\* going on, as the messages of main.py:112 and 140 tell them to.
ManualDelete ==
    /\ pc \notin {"done", "exit1"}
    /\ manual < MaxManualDeletes
    /\ \E k \in 1..KeyCap :
        /\ status[k] # "Absent"
        /\ status' = [status EXCEPT ![k] = "Absent"]
    /\ manual' = manual + 1
    /\ UNCHANGED <<args, pc, created, existing_keys, new_key, idx, file,
                   exit_code, calls, snapshot, file0>>

Next ==
    \/ ResolveIdentity
    \/ ListKeys
    \/ CapGuard
    \/ CreateKey
    \/ UpdateCredentialsFile
    \/ PropagationWait
    \/ ForcedEviction
    \/ SupersedeKey
    \/ DeleteKey
    \/ CompletionReport
    \/ ManualDelete

Spec == Init /\ [][Next]_vars

\* The steps of main(), without the operator's.
Program ==
    \/ ResolveIdentity
    \/ ListKeys
    \/ CapGuard
    \/ CreateKey
    \/ UpdateCredentialsFile
    \/ PropagationWait
    \/ ForcedEviction
    \/ SupersedeKey
    \/ DeleteKey
    \/ CompletionReport

\* The process is sequential and no call blocks for ever: main() goes on
\* while it has a step to take.
FairSpec == Spec /\ WF_vars(Program)

----------------------------------------------------------------------------
\* Reading the history.

CallIdx == 1..Len(calls)
\* The calls of operation op on key id.
CallsOn(op, id) == {i \in CallIdx : calls[i].op = op /\ calls[i].id = id}
\* The same, issued from line site of main.py.
CallsAt(op, id, site) == {i \in CallsOn(op, id) : calls[i].site = site}
CallsOf(op) == {i \in CallIdx : calls[i].op = op}
\* The identifiers of the keys get_access_keys returned.
SnapshotIds == {snapshot[i].AccessKeyId : i \in 1..Len(snapshot)}
\* get_access_keys returned the keys of the user.
Listed == \E i \in CallsOf("list") : calls[i].ok
Ended == pc \in {"done", "exit1"}
\* The earliest key of the snapshot, the first in service order among equals.
OldestId ==
    LET i == CHOOSE i \in 1..Len(snapshot) :
                /\ \A j \in 1..Len(snapshot) :
                      snapshot[i].CreateDate <= snapshot[j].CreateDate
                /\ \A j \in 1..(i - 1) :
                      snapshot[j].CreateDate > snapshot[i].CreateDate
    IN snapshot[i].AccessKeyId
MutatingOps == {"create", "write", "update", "delete"}

----------------------------------------------------------------------------
\* C1: when the keys listed are 2 or more and force is false, the run ends
\* at the cap guard with a non-zero exit status: no create call, no write of
\* the credentials file, no status update and no delete call is ever issued.
C1_CapGuardAborts ==
    (Listed /\ Len(snapshot) >= 2 /\ ~force) =>
        /\ pc \in {"guard", "exit1"}
        /\ \A i \in CallIdx : calls[i].op \notin MutatingOps
        /\ file = file0
        /\ pc = "exit1" => exit_code = 1

C1_Witness ==
    /\ Listed /\ Len(snapshot) >= 2 /\ ~force
    /\ pc = "exit1" /\ exit_code = 1

\* C2: no create call is issued while the user already holds 2 keys at the
\* service, whatever the initial count and the force flag.
C2_NoCreateAtLimit ==
    \A i \in CallsOf("create") : calls[i].held < 2

\* C3: no delete call is issued for a key that is still Active at the
\* service, also when the deactivation call before it failed.
C3_NeverDeleteActive ==
    \A i \in CallsOf("delete") : calls[i].st # "Active"

\* C4 as stated: after a run that reaches the completion report every key of
\* the snapshot has had exactly one deactivation call.
C4_ExactlyOneDeactivation ==
    pc = "done" =>
        \A k \in SnapshotIds : Cardinality(CallsOn("update", k)) = 1

\* C4 as amended: after a run that reaches the completion report every key of
\* the snapshot has had exactly one deactivation call from the supersession
\* pass, and that is its only deactivation call unless force is set and 2 or
\* more keys were listed: then the earliest key has had exactly two.
C4_DeactivationCount ==
    pc = "done" =>
        \A k \in SnapshotIds :
            /\ Cardinality(CallsAt("update", k, 135)) = 1
            /\ Cardinality(CallsOn("update", k)) =
                 IF force /\ Len(snapshot) >= 2 /\ k = OldestId THEN 2 ELSE 1

C4_Witness ==
    /\ pc = "done" /\ force /\ Len(snapshot) >= 2
    /\ Cardinality(CallsOn("update", OldestId)) = 2

\* C5: with grace period 0, a delete call is only ever issued for a key after
\* the deactivation call for that key, and after a run that reaches the
\* completion report every key of the snapshot has had exactly one delete call.
C5_DeleteOnceAfterDeactivate ==
    grace_period = 0 =>
        /\ \A i \in CallsOf("delete") :
              \E u \in CallsOn("update", calls[i].id) : u < i
        /\ pc = "done" =>
              \A k \in SnapshotIds : Cardinality(CallsOn("delete", k)) = 1

C5_Witness ==
    /\ grace_period = 0 /\ pc = "done" /\ force /\ Len(snapshot) = 2
    /\ \A k \in SnapshotIds : Cardinality(CallsOn("delete", k)) = 1

\* C6: with a grace period above 0 no delete call is ever issued.
C6_NoDeleteWithGrace ==
    grace_period > 0 => CallsOf("delete") = {}

C6_Witness ==
    /\ grace_period > 0 /\ pc = "done" /\ Len(snapshot) >= 1
    /\ \E i \in CallsOf("update") : ~calls[i].ok

\* The two options update_credentials_file sets.
KeyOptions == {"aws_access_key_id", "aws_secret_access_key"}
\* The run got past the cap guard: a create call was due.
PastGuard == pc \notin {"resolve", "list", "guard"} /\ Listed /\ (Len(snapshot) <= 1 \/ force)
Created == \E i \in CallsOf("create") : calls[i].ok
Written == \E i \in CallsOf("write") : calls[i].ok

C8_ForcedEvictionFirst ==
    (force /\ Len(snapshot) >= 2) =>
        /\ \A i \in CallIdx : calls[i].site = 130 =>
              calls[i].op = "update" /\ calls[i].id = OldestId
        /\ Cardinality({i \in CallIdx : calls[i].site = 130}) <= 1
        /\ \A i \in CallsAt("update", OldestId, 135) :
              \E e \in CallsAt("update", OldestId, 130) : e < i
        /\ pc \in {"pass", "delete", "done"} => CallsAt("update", OldestId, 130) # {}
        /\ pc = "done" => CallsAt("update", OldestId, 135) # {}

C8_Witness ==
    /\ pc = "done" /\ force /\ Len(snapshot) = 2
    /\ snapshot[2].CreateDate < snapshot[1].CreateDate
    /\ CallsAt("update", snapshot[2].AccessKeyId, 130) # {}
    /\ CallsAt("update", snapshot[2].AccessKeyId, 135) # {}

\* The place of an operation in the order of main().
Rank(op) ==
    CASE op = "get_user" -> 0
      [] op = "list" -> 1
      [] op = "create" -> 2
      [] op = "write" -> 3
      [] op = "sleep" -> 4
      [] OTHER -> 5

\* C9: the calls and the file write occur in the order list, create, write,
\* wait, status updates and deletes: a status update or delete is issued only
\* after the list, the create and the write succeeded and the wait was done,
\* and a failed list, create or write is the last thing the run does.
C9_StepOrder ==
    /\ \A i, j \in CallIdx : i < j => Rank(calls[i].op) <= Rank(calls[j].op)
    /\ \A op \in {"list", "create", "write", "sleep"} : Cardinality(CallsOf(op)) <= 1
    /\ \A i \in CallIdx : calls[i].op \in {"update", "delete"} =>
          \E a \in CallsOf("list") : \E b \in CallsOf("create") :
          \E c \in CallsOf("write") : \E d \in CallsOf("sleep") :
              /\ a < b /\ b < c /\ c < d /\ d < i
              /\ calls[a].ok /\ calls[b].ok /\ calls[c].ok
    /\ \A i \in CallIdx :
          (calls[i].op \in {"get_user", "list", "create", "write"} /\ ~calls[i].ok)
              => i = Len(calls) /\ pc = "exit1" /\ exit_code = 1

C9_Witness ==
    /\ pc = "done" /\ CallsOf("update") # {} /\ CallsOf("delete") # {}
    /\ CallsOf("get_user") # {}

\* A deactivation or delete call has failed.
LoggedFailure ==
    \E i \in CallIdx : calls[i].op \in {"update", "delete"} /\ ~calls[i].ok
\* A step of main() is enabled.
CanStep ==
    \/ ENABLED ForcedEviction
    \/ ENABLED SupersedeKey
    \/ ENABLED DeleteKey
    \/ ENABLED CompletionReport

\* C10: a failed deactivation or delete call does not end the run: the run
\* goes on from one step of the pass to the next up to the completion report
\* and exit status 0, no call is issued twice for a key from the same line,
\* and at the report every key of the snapshot has had its deactivation call
\* of the pass and, with grace period 0, its delete call.
C10_Safe ==
    /\ \A k \in Ids :
          /\ Cardinality(CallsAt("update", k, 135)) <= 1
          /\ Cardinality(CallsAt("update", k, 130)) <= 1
          /\ Cardinality(CallsOn("delete", k)) <= 1
    /\ LoggedFailure =>
          /\ pc \in {"pass", "delete", "done"}
          /\ pc # "done" => CanStep /\ exit_code = -1
          /\ pc = "done" =>
                /\ exit_code = 0
                /\ \A k \in SnapshotIds :
                      /\ Cardinality(CallsAt("update", k, 135)) = 1
                      /\ grace_period = 0 => Cardinality(CallsOn("delete", k)) = 1

C10_FailuresNotFatal == []C10_Safe /\ (LoggedFailure ~> (pc = "done" /\ exit_code = 0))

C10_Witness ==
    /\ pc = "done" /\ exit_code = 0 /\ Len(snapshot) = 2 /\ grace_period = 0
    /\ \E i \in CallsOn("update", snapshot[1].AccessKeyId) : ~calls[i].ok
    /\ \E i \in CallsOn("delete", snapshot[1].AccessKeyId) : ~calls[i].ok
    /\ CallsOn("delete", snapshot[2].AccessKeyId) # {}

====
